---- MODULE Spec2Model ----
(***************************************************************************)
(* Hazard, a Risk-like turn-based strategy game (src/src/main.rs).         *)
(*                                                                         *)
(* The model follows main(): the players are set up, the territories are   *)
(* shuffled and dealt round-robin, armies are placed (manual or even       *)
(* mode), and then the game loop runs: for each player in turn a           *)
(* reinforcement and an attack phase of any number of rounds, each round   *)
(* possibly calling perform_attack.  Every read of stdin is an input drawn *)
(* with \E; every random draw (the shuffle, the dice) is a nondeterministic*)
(* choice.  Player indices and territory indices are those of the source   *)
(* (both start at 0).  Player names are taken to be distinct, so that      *)
(* "other_player.name != player.name" is "another index".                  *)
(***************************************************************************)
EXTENDS Integers, Sequences, FiniteSets, TLC

VARIABLES
    number_of_players,        \* main: players.len()
    army_per_territory,       \* Player.army_per_territory, one ledger per player index
    pc,                       \* where the program is
    seed,                     \* what the random sources of this run produce
    army_count_per_player,    \* manual placement: armies credited per player index
    player_index,             \* manual placement: the index that is credited
    manual_player,            \* manual placement: position of "for player in players"
    player_idx,               \* main: the player whose turn it is
    attack_count,             \* main: attacks performed in this turn
    defender_idx_option,      \* main: Option<usize>, None is -1
    attacking_territory_index,\* main
    target_territory_index,   \* main
    attack_finished,          \* main: the last return value of perform_attack
    call,                     \* the locals of the perform_attack call in progress
    previous_call,            \* the arguments of this turn's latest perform_attack call
    turns,                    \* reinforcement phases entered so far (bounded)
    attacks                   \* perform_attack calls made so far (bounded)

vars == <<number_of_players, army_per_territory, pc, seed,
          army_count_per_player, player_index, manual_player, player_idx,
          attack_count, defender_idx_option, attacking_territory_index,
          target_territory_index, attack_finished, call, previous_call,
          turns, attacks>>

---------------------------------------------------------------------------
(* Program constants *)

MinPlayers == 1
MaxPlayers == 5
NumTerritories == 16
DiceSides == 6
MaxAttackDice == 3
MaxDefendDice == 2
MinReinforcement == 3

(* Bounds of the model *)

MaxSeed == 1           \* the shuffles and HashMap orders tried: those of seed 0..MaxSeed
MaxInput == 2          \* territory indices typed in the attack phase: 0..MaxInput
MaxTurns == 1          \* reinforcement phases per run
MaxAttacks == 3        \* perform_attack calls per run
MaxSourceArmies == 5   \* single calls: armies on the source, 1..MaxSourceArmies
MaxTargetArmies == 3   \* single calls: armies on the target, 1..MaxTargetArmies

Territories == 0..(NumTerritories - 1)
Players == 0..(number_of_players - 1)
None == -1

(* setup_territories: the edges in the order they are added *)
Edges ==
    { <<0, 1>>, <<0, 3>>, <<1, 2>>, <<2, 3>>,
      <<3, 13>>, <<13, 5>>, <<13, 4>>, <<4, 11>>, <<4, 12>>, <<4, 5>>,
      <<12, 11>>, <<5, 11>>, <<5, 15>>, <<5, 6>>, <<5, 7>>, <<11, 15>>,
      <<8, 7>>, <<8, 14>>, <<7, 6>>, <<7, 10>>, <<7, 14>>, <<6, 9>>,
      <<6, 15>>, <<6, 10>>, <<14, 10>>, <<14, 9>>, <<9, 10>> }

(* UnGraph::neighbors: the graph is undirected *)
Neighbors(t) == { u \in Territories : <<t, u>> \in Edges \/ <<u, t>> \in Edges }

---------------------------------------------------------------------------
(* Ledgers: a HashMap<u32,u32> is a function from the owned territory      *)
(* indices to army counts.                                                 *)

EmptyLedger == [t \in {} |-> 0]

Owned(p) == DOMAIN army_per_territory[p]

LedgerInsert(ledger, t, armies) ==
    [k \in (DOMAIN ledger) \cup {t} |-> IF k = t THEN armies ELSE ledger[k]]

(* LedgerRemove with the removal of line 445 left out *)
LedgerRemoveNothing(ledger, t) == ledger

(* LedgerRemove emptying the whole ledger *)
LedgerRemoveAll(ledger, t) == EmptyLedger

LedgerRemove(ledger, t) == [k \in (DOMAIN ledger) \ {t} |-> ledger[k]]

RECURSIVE SumArmies(_)
SumArmies(ledger) ==
    IF DOMAIN ledger = {} THEN 0
    ELSE LET t == CHOOSE k \in DOMAIN ledger : TRUE
         IN ledger[t] + SumArmies([k \in (DOMAIN ledger) \ {t} |-> ledger[k]])

TotalArmies(p) == SumArmies(army_per_territory[p])

RECURSIVE SortedSeq(_)
SortedSeq(S) ==
    IF S = {} THEN <<>>
    ELSE LET m == CHOOSE x \in S : \A y \in S : x <= y
         IN <<m>> \o SortedSeq(S \ {m})

(* The order in which a HashMap's iterator yields the keys is not          *)
(* specified; the orders modelled are the ascending keys rotated by        *)
(* the seed, the same for every pass over an unchanged map.                *)
KeysOrder(ledger) ==
    LET s == SortedSeq(DOMAIN ledger)
        k == Len(s)
    IN [i \in 1..k |-> s[((i - 1 + seed) % k) + 1]]

(* "loop { for (_, armies) in map.iter_mut() { if count >= n { break }     *)
(* *armies += 1; count += 1 } }": one army at a time, round-robin.         *)
RECURSIVE PlaceRoundRobin(_, _, _, _)
PlaceRoundRobin(ledger, order, i, remaining) ==
    IF remaining = 0 THEN ledger
    ELSE PlaceRoundRobin([ledger EXCEPT ![order[i]] = @ + 1], order,
                         IF i = Len(order) THEN 1 ELSE i + 1, remaining - 1)

EvenPlacement(ledger, n) == PlaceRoundRobin(ledger, KeysOrder(ledger), 1, n)

---------------------------------------------------------------------------
(* assign_territories_and_armies_to_players *)

ArmiesPerPlayer(n) ==
    CASE n = 1 -> 45
      [] n = 2 -> 40
      [] n = 3 -> 35
      [] n = 4 -> 30
      [] n = 5 -> 25
      [] OTHER -> 0

(* The outcomes of territory_indices.shuffle() that are tried: the         *)
(* creation order rotated by the seed.                                     *)
ShuffledIndices ==
    [i \in 1..NumTerritories |-> (i - 1 + seed) % NumTerritories]

(* DealTerritories with player_index never advanced: every territory goes  *)
(* to player p.                                                            *)
DealTerritoriesToOne(ledgers, indices, i, p) ==
    [q \in DOMAIN ledgers |->
        IF q = p THEN [t \in { indices[j] : j \in i..Len(indices) } |-> 0]
        ELSE ledgers[q]]

(* "for territory_index in territory_indices { insert(territory_index, 0); *)
(* player_index = (player_index + 1) % players.len() }"                    *)
RECURSIVE DealTerritories(_, _, _, _)
DealTerritories(ledgers, indices, i, p) ==
    IF i > Len(indices) THEN ledgers
    ELSE DealTerritories(
             [ledgers EXCEPT ![p] = LedgerInsert(@, indices[i], 0)],
             indices, i + 1, (p + 1) % number_of_players)

NoCall ==
    [active |-> FALSE, rolled |-> FALSE, conquered |-> FALSE,
     attacker_idx |-> 0, defender_idx |-> 0,
     n_attack_armies |-> 0, n_attacking_armies |-> 0,
     n_defend_armies |-> 0, n_defending_armies |-> 0,
     attacking_dice_rolls |-> <<>>, defending_dice_rolls |-> <<>>,
     new_n_attack_armies |-> 0, new_n_defend_armies |-> 0,
     n_movable_armies_input |-> 0, n_movable_armies |-> 0, result |-> FALSE,
     players_before |-> <<>>]

(* No call of perform_attack has been made in this turn *)
NoPreviousCall == [source |-> None, target |-> None, defender |-> None]

(* The state when assign_territories_and_armies_to_players is entered:     *)
(* setup_players has made number_of_players players with empty ledgers.    *)
Init ==
    /\ number_of_players \in MinPlayers..MaxPlayers
    /\ army_per_territory = [p \in 0..(number_of_players - 1) |-> EmptyLedger]
    /\ pc = "assign"
    /\ seed \in 0..MaxSeed
    /\ army_count_per_player = <<>>
    /\ player_index = 0
    /\ manual_player = 0
    /\ player_idx = 0
    /\ attack_count = 0
    /\ defender_idx_option = None
    /\ attacking_territory_index = 0
    /\ target_territory_index = 0
    /\ attack_finished = FALSE
    /\ call = NoCall
    /\ previous_call = NoPreviousCall
    /\ turns = 0
    /\ attacks = 0

mainLocals == <<player_idx, attack_count, defender_idx_option,
                attacking_territory_index, target_territory_index,
                attack_finished, call, previous_call, turns, attacks>>

manualLocals == <<army_count_per_player, player_index, manual_player>>

(* Lines 63-77: shuffle, then deal round-robin with 0 armies each *)
AssignTerritories ==
    /\ pc = "assign"
    /\ army_per_territory' =
           DealTerritories(army_per_territory, ShuffledIndices, 1, 0)
    /\ pc' = "choose_mode"
    /\ UNCHANGED <<number_of_players, seed, manualLocals, mainLocals>>

(* Lines 187-203 (and 157-171): every player places armies_per_player      *)
(* armies round-robin over the own territories.                            *)
PlaceEvenly(ledgers) ==
    [p \in DOMAIN ledgers |->
        EvenPlacement(ledgers[p], ArmiesPerPlayer(number_of_players))]

(* What is typed at "Type 1 for manual, or 2 for automatic" *)
ModeInputs == {1, 2, 3}

(* Lines 90-113 and, for even placement, 187-203 *)
ChooseMode ==
    /\ pc = "choose_mode"
    /\ \E manual_or_even_assignment \in ModeInputs :
         IF manual_or_even_assignment = 1
         THEN /\ pc' = "manual"
              /\ army_count_per_player' = [p \in Players |-> 0]
              /\ player_index' = 0
              /\ manual_player' = 0
              /\ UNCHANGED army_per_territory
         ELSE /\ pc' = "reinforce"
              /\ army_per_territory' = PlaceEvenly(army_per_territory)
              /\ UNCHANGED manualLocals
    /\ UNCHANGED <<number_of_players, seed, mainLocals>>

(* What is typed at "choose a territory index to add an army": territory 0 *)
(* (owned by one player) or an index no player owns.                       *)
ManualInputs == {0, NumTerritories}

(* Lines 119-155, one prompt of the manual loop; when a credited count     *)
(* reaches armies_per_player the loop is left and lines 157-171 run.       *)
ManualNominate ==
    /\ pc = "manual"
    /\ \E selected_index \in ManualInputs :
         LET player == manual_player
             last == (manual_player = number_of_players - 1)
         IN IF selected_index \in Owned(player)
            THEN LET placed == [army_per_territory EXCEPT
                                   ![player][selected_index] = @ + 1]
                     counts == [army_count_per_player EXCEPT
                                   ![player_index] = @ + 1]
                 IN /\ army_count_per_player' = counts
                    /\ IF counts[player_index] >= ArmiesPerPlayer(number_of_players)
                       THEN /\ army_per_territory' = PlaceEvenly(placed)
                            /\ pc' = "reinforce"
                            /\ UNCHANGED <<player_index, manual_player>>
                       ELSE /\ army_per_territory' = placed
                            /\ pc' = "manual"
                            /\ player_index' = IF last THEN 0 ELSE player_index + 1
                            /\ manual_player' = IF last THEN 0 ELSE manual_player + 1
            ELSE /\ pc' = "manual"
                 /\ player_index' = IF last THEN 0 ELSE player_index
                 /\ manual_player' = IF last THEN 0 ELSE manual_player + 1
                 /\ UNCHANGED <<army_per_territory, army_count_per_player>>
    /\ UNCHANGED <<number_of_players, seed, mainLocals>>

---------------------------------------------------------------------------
(* add_armies_to_player *)

Max(a, b) == IF a >= b THEN a ELSE b
Min(a, b) == IF a <= b THEN a ELSE b

(* AdditionalArmies without the minimum of 3 *)
AdditionalArmiesNoMinimum(total_territories) == total_territories \div 3

(* Line 294: max(3, total_territories / 3) *)
AdditionalArmies(total_territories) ==
    Max(MinReinforcement, total_territories \div 3)

(* Lines 291-313; not defined on an empty ledger, where the loop of        *)
(* lines 301-312 never ends.                                               *)
AddArmiesToPlayer(ledger) ==
    EvenPlacement(ledger, AdditionalArmies(Cardinality(DOMAIN ledger)))

allocState == <<number_of_players, seed, manualLocals>>

(* Lines 546-565: the turn of player_idx begins: reinforcement, then the   *)
(* locals of the attack phase are initialised.                             *)
Reinforce ==
    /\ pc = "reinforce"
    /\ turns < MaxTurns
    /\ turns' = turns + 1
    /\ IF Owned(player_idx) = {}
       THEN /\ pc' = "reinforce_hang"
            /\ UNCHANGED army_per_territory
       ELSE /\ pc' = "attack_phase"
            /\ army_per_territory' =
                   [army_per_territory EXCEPT ![player_idx] = AddArmiesToPlayer(@)]
    /\ attack_count' = 0
    /\ defender_idx_option' = None
    /\ attacking_territory_index' = 0
    /\ target_territory_index' = 0
    /\ attack_finished' = FALSE
    /\ previous_call' = NoPreviousCall
    /\ UNCHANGED <<allocState, player_idx, call, attacks>>

---------------------------------------------------------------------------
(* main: one round of the attack phase, lines 566-720 *)

(* What is typed at the y/n prompts: "y"/"Y", "n"/"N", anything else *)
Answers == {"y", "n", "x"}

(* What is typed as a territory index *)
AttackInputs == 0..MaxInput

(* Line 576: the repeat question is asked *)
AskRepeat == attack_count > 0 /\ ~attack_finished

(* Lines 574-596: choose_new_attack stays true unless "y" is answered to   *)
(* the repeat question.                                                    *)
ChooseNewAttack == AskRepeat => \E repeat_attack \in Answers : repeat_attack # "y"

(* Lines 641-649: the neighbours of the source the player does not own *)
TargetIndices(source) == { u \in Neighbors(source) : u \notin Owned(player_idx) }

(* Lines 676-683: the first other player whose ledger holds the target;    *)
(* defender_idx_option keeps its value when there is none.                 *)
FindDefender(target) ==
    LET owners == { q \in Players : q # player_idx /\ target \in Owned(q) }
    IN IF owners = {} THEN defender_idx_option
       ELSE CHOOSE q \in owners : \A r \in owners : q <= r

(* Lines 697-708: perform_attack is entered *)
EnterPerformAttack ==
    /\ attacks < MaxAttacks
    /\ attacks' = attacks + 1
    /\ pc' = "perform_attack"
    /\ call' = [NoCall EXCEPT !.active = TRUE,
                              !.attacker_idx = player_idx,
                              !.defender_idx = defender_idx_option',
                              !.players_before = army_per_territory]
    /\ previous_call' = [source |-> attacking_territory_index',
                         target |-> target_territory_index',
                         defender |-> defender_idx_option']

roundFrame == <<allocState, army_per_territory, player_idx, attack_count,
                attack_finished, turns>>

(* Lines 576-587 and 697: "y" to "attack the territory again?" *)
RepeatAttack ==
    /\ pc = "attack_phase"
    /\ AskRepeat
    /\ UNCHANGED <<defender_idx_option, attacking_territory_index,
                   target_territory_index>>
    /\ IF defender_idx_option # None
       THEN EnterPerformAttack
       ELSE UNCHANGED <<pc, call, attacks, previous_call>>
    /\ UNCHANGED roundFrame

(* Lines 629-639: the source typed is not in the player's ledger *)
SourceNotOwned ==
    /\ pc = "attack_phase"
    /\ ChooseNewAttack
    /\ \E selected_index \in AttackInputs :
         /\ selected_index \notin Owned(player_idx)
         /\ attacking_territory_index' = selected_index
    /\ UNCHANGED <<roundFrame, pc, defender_idx_option, target_territory_index,
                   call, attacks, previous_call>>

(* SourceTooFewArmies without the rejection: the target is asked for and   *)
(* the attack is made.                                                     *)
SourceTooFewArmiesAccepted ==
    /\ pc = "attack_phase"
    /\ ChooseNewAttack
    /\ \E selected_index \in AttackInputs, target_index \in AttackInputs :
         /\ selected_index \in Owned(player_idx)
         /\ army_per_territory[player_idx][selected_index] < 2
         /\ attacking_territory_index' = selected_index
         /\ target_territory_index' = target_index
         /\ defender_idx_option' = FindDefender(target_index)
    /\ IF defender_idx_option' # None
       THEN EnterPerformAttack
       ELSE UNCHANGED <<pc, call, attacks, previous_call>>
    /\ UNCHANGED roundFrame

(* Lines 631-635: the source typed holds fewer than 2 armies *)
SourceTooFewArmies ==
    /\ pc = "attack_phase"
    /\ ChooseNewAttack
    /\ \E selected_index \in AttackInputs :
         /\ selected_index \in Owned(player_idx)
         /\ army_per_territory[player_idx][selected_index] < 2
         /\ attacking_territory_index' = selected_index
    /\ UNCHANGED <<roundFrame, pc, defender_idx_option, target_territory_index,
                   call, attacks, previous_call>>

(* Lines 641-655: every neighbour of the source is the player's own *)
SourceNoTargets ==
    /\ pc = "attack_phase"
    /\ ChooseNewAttack
    /\ \E selected_index \in AttackInputs :
         /\ selected_index \in Owned(player_idx)
         /\ army_per_territory[player_idx][selected_index] >= 2
         /\ TargetIndices(selected_index) = {}
         /\ attacking_territory_index' = selected_index
    /\ UNCHANGED <<roundFrame, pc, defender_idx_option, target_territory_index,
                   call, attacks, previous_call>>

(* Lines 629-683 and 697: a source that passes the checks and a target as  *)
(* typed; the target is looked up in the other players' ledgers only.      *)
NewAttack ==
    /\ pc = "attack_phase"
    /\ ChooseNewAttack
    /\ \E selected_index \in AttackInputs, target_index \in AttackInputs :
         /\ selected_index \in Owned(player_idx)
         /\ army_per_territory[player_idx][selected_index] >= 2
         /\ TargetIndices(selected_index) # {}
         /\ attacking_territory_index' = selected_index
         /\ target_territory_index' = target_index
         /\ defender_idx_option' = FindDefender(target_index)
    /\ IF defender_idx_option' # None
       THEN EnterPerformAttack
       ELSE UNCHANGED <<pc, call, attacks, previous_call>>
    /\ UNCHANGED roundFrame

(* EndTurn with the turn staying with the same player *)
EndTurnSamePlayer ==
    /\ pc = "attack_phase"
    /\ ChooseNewAttack
    /\ \E input \in Answers : input # "y"
    /\ pc' = "reinforce"
    /\ attack_count' = 0
    /\ defender_idx_option' = None
    /\ attacking_territory_index' = 0
    /\ target_territory_index' = 0
    /\ attack_finished' = FALSE
    /\ previous_call' = NoPreviousCall
    /\ UNCHANGED <<allocState, army_per_territory, player_idx, call, turns,
                   attacks>>

(* Lines 685-692: "n" or anything else to "attack any territory?": the     *)
(* turn is over, the for loop (and around it the game loop) goes on to the *)
(* next player.  The locals of the attack phase go out of scope; they are  *)
(* given the values lines 557-563 declare them with.                       *)
EndTurn ==
    /\ pc = "attack_phase"
    /\ ChooseNewAttack
    /\ \E input \in Answers : input # "y"
    /\ pc' = "reinforce"
    /\ player_idx' = (player_idx + 1) % number_of_players
    /\ attack_count' = 0
    /\ defender_idx_option' = None
    /\ attacking_territory_index' = 0
    /\ target_territory_index' = 0
    /\ attack_finished' = FALSE
    /\ previous_call' = NoPreviousCall
    /\ UNCHANGED <<allocState, army_per_territory, call, turns, attacks>>

---------------------------------------------------------------------------
(* perform_attack *)

(* MaxAttackArmies without the army that stays behind *)
MaxAttackArmiesAll(n_attack_armies) == Min(n_attack_armies, MaxAttackDice)

(* Line 339 *)
MaxAttackArmies(n_attack_armies) == Min(n_attack_armies - 1, MaxAttackDice)

(* Line 372 *)
MaxDefendArmies(n_defend_armies) == Min(n_defend_armies, MaxDefendDice)

(* Lines 414-415: sort_by(|a, b| b.cmp(a)) *)
RECURSIVE InsertDescending(_, _)
InsertDescending(x, s) ==
    IF s = <<>> THEN <<x>>
    ELSE IF x >= Head(s) THEN <<x>> \o s
    ELSE <<Head(s)>> \o InsertDescending(x, Tail(s))

RECURSIVE SortDescending(_)
SortDescending(s) ==
    IF s = <<>> THEN <<>>
    ELSE InsertDescending(Head(s), SortDescending(Tail(s)))

(* AttackerWins with ties going to the attacker *)
AttackerWinsTies(attacking_die, defending_die) == attacking_die >= defending_die

(* Line 419: the attacker wins comparison i *)
AttackerWins(attacking_die, defending_die) == attacking_die > defending_die

(* ApplyComparisons with the source losing an army in every comparison,    *)
(* the ones the attacker wins included.                                    *)
ApplyComparisonsBothLose(ledgers, attacker, defender, source, target, attacking_rolls, defending_rolls, i, n_comparisons) ==
    LET won == Cardinality({ j \in i..n_comparisons :
                   attacking_rolls[j] > defending_rolls[j] })
        all == Cardinality(i..n_comparisons)
    IN [ledgers EXCEPT ![defender][target] = @ - won,
                       ![attacker][source] = @ - all]

(* Lines 417-430: comparisons i..n_comparisons applied to the ledgers, the *)
(* loser's territory losing one army each time.                            *)
RECURSIVE ApplyComparisons(_, _, _, _, _, _, _, _, _)
ApplyComparisons(ledgers, attacker, defender, source, target, attacking_rolls, defending_rolls, i, n_comparisons) ==
    IF i > n_comparisons THEN ledgers
    ELSE ApplyComparisons(
             IF AttackerWins(attacking_rolls[i], defending_rolls[i])
             THEN [ledgers EXCEPT ![defender][target] = @ - 1]
             ELSE [ledgers EXCEPT ![attacker][source] = @ - 1],
             attacker, defender, source, target,
             attacking_rolls, defending_rolls, i + 1, n_comparisons)

(* AttackResult always false: the attack is never finished *)
AttackResultAlwaysFalse(new_n_defend_armies, new_n_attack_armies) == FALSE

(* AttackResult without the test of the source's last army *)
AttackResultConquestOnly(new_n_defend_armies, new_n_attack_armies) ==
    new_n_defend_armies = 0

(* Line 487 *)
AttackResult(new_n_defend_armies, new_n_attack_armies) ==
    (new_n_defend_armies = 0) \/ (new_n_attack_armies = 1)

(* The unwraps and the subtraction that end the program before any die is  *)
(* rolled: lines 327, 328, 334, 339 and 367.                               *)
AttackPanics ==
    \/ attacking_territory_index \notin Territories
    \/ target_territory_index \notin Territories
    \/ attacking_territory_index \notin Owned(call.attacker_idx)
    \/ army_per_territory[call.attacker_idx][attacking_territory_index] = 0
    \/ target_territory_index \notin Owned(call.defender_idx)

(* Lines 327-445: the forces are sized, the dice are rolled (each in       *)
(* Faces), sorted and compared, the losses are applied; when the target is *)
(* down to 0 armies it is removed from the defender's ledger and the       *)
(* number of armies to move is asked for (line 463).                       *)
PerformAttackWith(Faces) ==
    /\ pc = "perform_attack"
    /\ IF AttackPanics
       THEN /\ pc' = "panicked"
            /\ UNCHANGED <<army_per_territory, call>>
       ELSE LET attacker == call.attacker_idx
                defender == call.defender_idx
                source == attacking_territory_index
                target == target_territory_index
                n_attack_armies == army_per_territory[attacker][source]
                n_attacking_armies == MaxAttackArmies(n_attack_armies)
                n_defend_armies == army_per_territory[defender][target]
                n_defending_armies == MaxDefendArmies(n_defend_armies)
            IN \E rolled_attack \in [1..n_attacking_armies -> Faces],
                  rolled_defend \in [1..n_defending_armies -> Faces] :
                 LET attacking_dice_rolls == SortDescending(rolled_attack)
                     defending_dice_rolls == SortDescending(rolled_defend)
                     n_comparisons == Min(Len(attacking_dice_rolls),
                                          Len(defending_dice_rolls))
                     after == ApplyComparisons(army_per_territory, attacker,
                                  defender, source, target, attacking_dice_rolls,
                                  defending_dice_rolls, 1, n_comparisons)
                     new_n_attack_armies == after[attacker][source]
                     new_n_defend_armies == after[defender][target]
                     locals == [call EXCEPT
                         !.rolled = TRUE,
                         !.n_attack_armies = n_attack_armies,
                         !.n_attacking_armies = n_attacking_armies,
                         !.n_defend_armies = n_defend_armies,
                         !.n_defending_armies = n_defending_armies,
                         !.attacking_dice_rolls = attacking_dice_rolls,
                         !.defending_dice_rolls = defending_dice_rolls,
                         !.new_n_attack_armies = new_n_attack_armies,
                         !.new_n_defend_armies = new_n_defend_armies,
                         !.result = AttackResult(new_n_defend_armies,
                                                 new_n_attack_armies)]
                 IN IF new_n_defend_armies = 0
                    THEN /\ army_per_territory' =
                                [after EXCEPT ![defender] = LedgerRemove(@, target)]
                         /\ call' = [locals EXCEPT !.conquered = TRUE]
                         /\ pc' = "conquest_transfer"
                    ELSE /\ army_per_territory' = after
                         /\ call' = locals
                         /\ pc' = "attack_returned"
    /\ UNCHANGED <<allocState, player_idx, attack_count, defender_idx_option,
                   attacking_territory_index, target_territory_index,
                   attack_finished, previous_call, turns, attacks>>

(* The dice of the runs from the program's start: the lowest and the       *)
(* highest face only.                                                      *)
PerformAttack == PerformAttackWith({1, DiceSides})

(* The dice of the program: rng.gen_range(1..=6), lines 403 and 409 *)
PerformAttackSixSided == PerformAttackWith(1..DiceSides)

(* MovableArmies without the lower limit of lines 471-474 *)
MovableArmiesNoMinimum(requested, min_movable_armies, max_movable_armies) ==
    IF requested > max_movable_armies THEN max_movable_armies ELSE requested

(* MovableArmies without the upper limit of lines 467-470 *)
MovableArmiesNoMaximum(requested, min_movable_armies, max_movable_armies) ==
    IF requested < min_movable_armies THEN min_movable_armies ELSE requested

(* Lines 467-474: the number typed is brought into                         *)
(* min_movable_armies..max_movable_armies, the upper limit first.          *)
MovableArmies(requested, min_movable_armies, max_movable_armies) ==
    LET capped == IF requested > max_movable_armies
                  THEN max_movable_armies ELSE requested
    IN IF capped < min_movable_armies THEN min_movable_armies ELSE capped

(* Lines 454-487: the number of armies to move has been typed; the target  *)
(* is inserted into the attacker's ledger and the source is debited.  The  *)
(* subtraction of line 478 is on u32: were it to go below 0, a build with  *)
(* overflow checks ends the program and one without wraps the count around *)
(* to a number near 2^32; both outcomes are the position "overflowed"      *)
(* (the count of the source, which has no value there, is left at 0).      *)
(* The numbers typed range from 0 to past max_movable_armies.              *)
TransferInputs == 0..(call.new_n_attack_armies + 1)

(* MoveArmies without the debit of line 478 *)
MoveArmiesNoDebit(ledgers, attacker, source, target, n_movable_armies) ==
    [ledgers EXCEPT ![attacker] = LedgerInsert(@, target, n_movable_armies)]

(* Lines 476-478: the target enters the attacker's ledger with the armies  *)
(* moved, and the source is debited by as many.                            *)
MoveArmies(ledgers, attacker, source, target, n_movable_armies) ==
    LET inserted == [ledgers EXCEPT
                        ![attacker] = LedgerInsert(@, target, n_movable_armies)]
    IN [inserted EXCEPT ![attacker][source] = @ - n_movable_armies]

ConquestTransfer ==
    /\ pc = "conquest_transfer"
    /\ \E requested \in TransferInputs :
         LET attacker == call.attacker_idx
             source == attacking_territory_index
             target == target_territory_index
             n_movable_armies == MovableArmies(requested,
                 call.n_attacking_armies, call.new_n_attack_armies - 1)
             moved == MoveArmies(army_per_territory, attacker, source, target,
                                 n_movable_armies)
         IN /\ call' = [call EXCEPT !.n_movable_armies_input = requested,
                                    !.n_movable_armies = n_movable_armies]
            /\ IF moved[attacker][source] >= 0
               THEN /\ army_per_territory' = moved
                    /\ pc' = "attack_returned"
               ELSE /\ army_per_territory' =
                           [moved EXCEPT ![attacker][source] = 0]
                    /\ pc' = "overflowed"
    /\ UNCHANGED <<allocState, player_idx, attack_count, defender_idx_option,
                   attacking_territory_index, target_territory_index,
                   attack_finished, previous_call, turns, attacks>>

(* check_game_over, lines 490-500: "for player in players { if             *)
(* player.army_per_territory.len() == territories.node_count() { return    *)
(* true } } false", the players visited in index order from p on.          *)
RECURSIVE CheckGameOverFrom(_)
CheckGameOverFrom(p) ==
    IF p >= number_of_players THEN FALSE
    ELSE IF Cardinality(Owned(p)) = NumTerritories THEN TRUE
    ELSE CheckGameOverFrom(p + 1)

(* CheckGameOver never finding a winner *)
CheckGameOverNever == FALSE

(* CheckGameOver looking at the first player only *)
CheckGameOverFirstPlayer == Cardinality(Owned(0)) = NumTerritories

CheckGameOver == CheckGameOverFrom(0)

(* Lines 701-717: perform_attack has returned; its value becomes           *)
(* attack_finished, the attack is counted, and the game ends when one      *)
(* player holds every territory.                                           *)
AfterAttack ==
    /\ pc = "attack_returned"
    /\ attack_finished' = call.result
    /\ attack_count' = attack_count + 1
    /\ call' = NoCall
    /\ pc' = IF CheckGameOver THEN "game_over" ELSE "attack_phase"
    /\ UNCHANGED <<allocState, army_per_territory, player_idx,
                   defender_idx_option, attacking_territory_index,
                   target_territory_index, previous_call, turns, attacks>>

---------------------------------------------------------------------------
(* The program from its start *)

Next ==
    \/ AssignTerritories
    \/ ChooseMode
    \/ ManualNominate
    \/ Reinforce
    \/ RepeatAttack
    \/ SourceNotOwned
    \/ SourceTooFewArmies
    \/ SourceNoTargets
    \/ NewAttack
    \/ EndTurn
    \/ PerformAttack
    \/ ConquestTransfer
    \/ AfterAttack

Spec == Init /\ [][Next]_vars

---------------------------------------------------------------------------
(* One call of perform_attack with the program's six-sided dice.  The call *)
(* is made from a position of the game: the territories dealt and the      *)
(* armies placed evenly as at the start, then the source and the target    *)
(* worn down or built up to any small number of armies.  The source is one *)
(* of player 0's territories and the target any territory of another       *)
(* player, adjacent or not, as main passes them at line 702.               *)

CombatPlayers == {2, 3}

InitCombat ==
    /\ number_of_players \in CombatPlayers
    /\ seed \in 0..MaxSeed
    /\ pc = "perform_attack"
    /\ army_count_per_player = <<>>
    /\ player_index = 0
    /\ manual_player = 0
    /\ player_idx = 0
    /\ attack_count = 0
    /\ attack_finished = FALSE
    /\ turns = 1
    /\ attacks = 1
    /\ \E source \in AttackInputs, target \in AttackInputs,
          source_armies \in 1..MaxSourceArmies,
          target_armies \in 1..MaxTargetArmies :
         LET dealt == DealTerritories(
                          [p \in 0..(number_of_players - 1) |-> EmptyLedger],
                          ShuffledIndices, 1, 0)
             placed == PlaceEvenly(dealt)
             defender == CHOOSE q \in DOMAIN placed : target \in DOMAIN placed[q]
         IN /\ source \in DOMAIN placed[0]
            /\ target \notin DOMAIN placed[0]
            /\ army_per_territory =
                   [placed EXCEPT ![0][source] = source_armies,
                                  ![defender][target] = target_armies]
            /\ attacking_territory_index = source
            /\ target_territory_index = target
            /\ defender_idx_option = defender
            /\ call = [NoCall EXCEPT !.active = TRUE,
                                     !.attacker_idx = 0,
                                     !.defender_idx = defender,
                                     !.players_before = army_per_territory]
            /\ previous_call = [source |-> source, target |-> target,
                                defender |-> defender]

NextCombat ==
    \/ PerformAttackSixSided
    \/ ConquestTransfer
    \/ AfterAttack

SpecCombat == InitCombat /\ [][NextCombat]_vars

---------------------------------------------------------------------------
(* The late game, from the start of an attack phase.  One player, the      *)
(* leader, has conquered every territory but one of each other player:     *)
(* the q-th player after the leader in turn order is left with territory q *)
(* (Eastern Australia, New Guinea) and 1 army on it, and the leader has 4  *)
(* armies on each of its territories.  It is the turn of any player, who   *)
(* has just received the reinforcement of lines 548-555 and has not        *)
(* attacked yet.  The ledgers are iterated in ascending key order.         *)

EndgamePlayers == {2, 3}

InitEndgame ==
    /\ number_of_players \in EndgamePlayers
    /\ seed = 0
    /\ player_idx \in 0..(number_of_players - 1)
    /\ \E leader \in 0..(number_of_players - 1) :
         LET holder(t) == IF t \in 1..(number_of_players - 1)
                          THEN (leader + t) % number_of_players
                          ELSE leader
             position ==
                 [p \in 0..(number_of_players - 1) |->
                     [t \in { u \in Territories : holder(u) = p } |->
                         IF p = leader THEN 4 ELSE 1]]
         IN army_per_territory =
                [position EXCEPT ![player_idx] = AddArmiesToPlayer(@)]
    /\ pc = "attack_phase"
    /\ army_count_per_player = <<>>
    /\ player_index = 0
    /\ manual_player = 0
    /\ attack_count = 0
    /\ defender_idx_option = None
    /\ attacking_territory_index = 0
    /\ target_territory_index = 0
    /\ attack_finished = FALSE
    /\ call = NoCall
    /\ previous_call = NoPreviousCall
    /\ turns = 0
    /\ attacks = 0

NextEndgame ==
    \/ Reinforce
    \/ RepeatAttack
    \/ SourceNotOwned
    \/ SourceTooFewArmies
    \/ SourceNoTargets
    \/ NewAttack
    \/ EndTurn
    \/ PerformAttack
    \/ ConquestTransfer
    \/ AfterAttack

SpecEndgame == InitEndgame /\ [][NextEndgame]_vars

---------------------------------------------------------------------------
(* Properties *)

AllocationDone == pc \notin {"assign", "choose_mode", "manual"}

(* A call of perform_attack is waiting for the number of armies to move *)
InsideCall == pc \in {"conquest_transfer", "overflowed"}

Owners(t) == { p \in Players : t \in Owned(p) }

OwnershipPartition ==
    /\ \A p \in Players : Owned(p) \subseteq Territories
    /\ \A t \in Territories : Cardinality(Owners(t)) = 1

(* C1: once the initial allocation is done, and whatever reinforcements,   *)
(* attacks and conquests have been completed since, every territory is in  *)
(* exactly one player's ledger.                                            *)
C1_OwnershipPartition ==
    (AllocationDone /\ ~InsideCall) => OwnershipPartition

(* An attack has returned after a conquest *)
C1_Witness ==
    /\ pc = "attack_returned"
    /\ call.conquered
    /\ target_territory_index \in Owned(call.attacker_idx)

ArmyFloor ==
    \A p \in Players : \A t \in Owned(p) : army_per_territory[p][t] >= 1

(* C2: after the initial allocation and after every completed              *)
(* reinforcement and attack every ledger entry holds at least 1 army; a    *)
(* conquest leaves at least 1 army on the source and puts at least 1 on    *)
(* the captured territory, which is then in the attacker's ledger.         *)
C2_ArmyFloor ==
    /\ (AllocationDone /\ ~InsideCall) => ArmyFloor
    /\ (pc = "attack_returned" /\ call.conquered) =>
           /\ target_territory_index \in Owned(call.attacker_idx)
           /\ army_per_territory[call.attacker_idx][target_territory_index] >= 1
           /\ army_per_territory[call.attacker_idx][attacking_territory_index] >= 1

(* A conquest that moved every army but one out of the source *)
C2_Witness ==
    /\ pc = "attack_returned"
    /\ call.conquered
    /\ army_per_territory[call.attacker_idx][attacking_territory_index] = 1

(* C3: when the initial allocation finishes, in either mode, every         *)
(* player's armies add up to the starting pool of the player count.        *)
C3_AllocationConservation ==
    (pc = "reinforce" /\ turns = 0) =>
        \A p \in Players : TotalArmies(p) = ArmiesPerPlayer(number_of_players)

(* C4: every call of perform_attack has a source that the attacker owns    *)
(* and that holds at least 2 armies.                                       *)
C4_SourcePrecondition ==
    pc = "perform_attack" =>
        /\ attacking_territory_index \in Owned(call.attacker_idx)
        /\ army_per_territory[call.attacker_idx][attacking_territory_index] >= 2

(* C5: every call of perform_attack that rolls dice has a target that is   *)
(* adjacent to the source and is not the attacker's own.                   *)
C5_TargetPrecondition ==
    call.rolled =>
        /\ target_territory_index \in Neighbors(attacking_territory_index)
        /\ target_territory_index \notin DOMAIN call.players_before[call.attacker_idx]

(* The armies on a territory when the call was made *)
ArmiesBefore(p, t) == call.players_before[p][t]

(* The armies of a player when the call was made *)
TotalBefore(p) == SumArmies(call.players_before[p])

(* C6: when a call has brought the target down to 0 armies, the number m   *)
(* of armies moved is at least the attacking force and at most the armies  *)
(* left on the source minus 1, whatever number was typed; the target has   *)
(* left the defender's ledger and is in the attacker's with m armies, and  *)
(* the source keeps what was left minus m, at least 1.                     *)
C6_ConquestTransferBounds ==
    (pc = "attack_returned" /\ call.new_n_defend_armies = 0) =>
        LET attacker == call.attacker_idx
            source == attacking_territory_index
            target == target_territory_index
            force == Len(call.attacking_dice_rolls)
            after_losses == call.new_n_attack_armies
            m == army_per_territory[attacker][target]
        IN /\ target \notin Owned(call.defender_idx)
           /\ target \in Owned(attacker)
           /\ force <= m
           /\ m <= after_losses - 1
           /\ army_per_territory[attacker][source] = after_losses - m
           /\ army_per_territory[attacker][source] >= 1

(* A conquest after which more than the attacking force was moved *)
C6_Witness ==
    /\ pc = "attack_returned"
    /\ call.conquered
    /\ call.n_movable_armies > call.n_attacking_armies
    /\ army_per_territory[call.attacker_idx][target_territory_index] =
           call.n_movable_armies

(* C7: over a call of perform_attack, conquest and transfer included, the  *)
(* armies of attacker and defender together go down by exactly             *)
(* min(attacking force, defending force), each comparison taking one army  *)
(* from the source or from the target.                                     *)
C7_CombatZeroSum ==
    pc = "attack_returned" =>
        LET attacker == call.attacker_idx
            defender == call.defender_idx
            comparisons == Min(Len(call.attacking_dice_rolls),
                               Len(call.defending_dice_rolls))
            source_loss == ArmiesBefore(attacker, attacking_territory_index)
                               - call.new_n_attack_armies
            target_loss == ArmiesBefore(defender, target_territory_index)
                               - call.new_n_defend_armies
        IN /\ (TotalBefore(attacker) + TotalBefore(defender))
                  - (TotalArmies(attacker) + TotalArmies(defender)) = comparisons
           /\ source_loss >= 0
           /\ target_loss >= 0
           /\ source_loss + target_loss = comparisons

(* Two comparisons, both lost by the defender, and the conquest completed *)
C7_Witness ==
    /\ pc = "attack_returned"
    /\ call.conquered
    /\ Len(call.defending_dice_rolls) = 2
    /\ Len(call.attacking_dice_rolls) >= 2

IsDescending(rolls) ==
    \A i \in 1..(Len(rolls) - 1) : rolls[i] >= rolls[i + 1]

(* C8: the dice compared are in descending order on both sides, the first  *)
(* min(attacking force, defending force) pairs are compared, the target    *)
(* loses one army for each pair with a strictly greater attacker's die and *)
(* the source one army for every other pair, ties included.                *)
C8_DiceResolution ==
    call.rolled =>
        LET attacking == call.attacking_dice_rolls
            defending == call.defending_dice_rolls
            pairs == 1..Min(call.n_attacking_armies, call.n_defending_armies)
            won == { i \in pairs : attacking[i] > defending[i] }
        IN /\ IsDescending(attacking)
           /\ IsDescending(defending)
           /\ ArmiesBefore(call.defender_idx, target_territory_index)
                  - call.new_n_defend_armies = Cardinality(won)
           /\ ArmiesBefore(call.attacker_idx, attacking_territory_index)
                  - call.new_n_attack_armies = Cardinality(pairs \ won)

(* Two pairs compared: the first won by the attacker, the second a tie *)
C8_Witness ==
    /\ call.rolled
    /\ Len(call.attacking_dice_rolls) >= 2
    /\ Len(call.defending_dice_rolls) = 2
    /\ call.attacking_dice_rolls[1] > call.defending_dice_rolls[1]
    /\ call.attacking_dice_rolls[2] = call.defending_dice_rolls[2]
    /\ call.new_n_attack_armies = call.n_attack_armies - 1

(* C9: the attacker rolls min(armies on the source - 1, 3) dice and the    *)
(* defender min(armies on the target, 2); a source of 2 armies rolls 1     *)
(* die; no side rolls more dice than it has armies to lose.                *)
C9_ForceSizing ==
    call.rolled =>
        LET source_armies == ArmiesBefore(call.attacker_idx, attacking_territory_index)
            target_armies == ArmiesBefore(call.defender_idx, target_territory_index)
            attacking == Len(call.attacking_dice_rolls)
            defending == Len(call.defending_dice_rolls)
        IN /\ attacking = (IF source_armies - 1 < 3 THEN source_armies - 1 ELSE 3)
           /\ defending = (IF target_armies < 2 THEN target_armies ELSE 2)
           /\ source_armies = 2 => attacking = 1
           /\ attacking <= source_armies - 1
           /\ defending <= target_armies

(* A source of exactly 2 armies has rolled *)
C9_Witness ==
    /\ call.rolled
    /\ ArmiesBefore(call.attacker_idx, attacking_territory_index) = 2
    /\ Len(call.attacking_dice_rolls) = 1

(* C10: perform_attack returns true exactly when the target was conquered  *)
(* in this call or the source is down to 1 army after the losses.          *)
C10_TerminationSignal ==
    pc = "attack_returned" =>
        LET attacker == call.attacker_idx
            source == attacking_territory_index
            target == target_territory_index
            conquered == target \in Owned(attacker)
            moved == IF conquered THEN army_per_territory[attacker][target] ELSE 0
            after_losses == army_per_territory[attacker][source] + moved
        IN call.result <=> (conquered \/ after_losses = 1)

(* The call returned true without a conquest: the source is down to 1 *)
C10_Witness ==
    /\ pc = "attack_returned"
    /\ call.result
    /\ ~call.conquered
    /\ army_per_territory[call.attacker_idx][attacking_territory_index] = 1
    /\ ArmiesBefore(call.attacker_idx, attacking_territory_index) > 1

(* C11: a reinforcement of a player owning k >= 1 territories adds exactly *)
(* max(3, k div 3) armies to that player's total, spread one at a time     *)
(* round-robin (every territory gains the floor or the ceiling of the      *)
(* grant divided by k), and changes neither the set of territories the     *)
(* player owns nor any other player's ledger.                              *)
C11_ReinforcementAmount ==
    [][(pc = "reinforce" /\ pc' = "attack_phase") =>
          LET k == Cardinality(Owned(player_idx))
              grant == IF k \div 3 > 3 THEN k \div 3 ELSE 3
              before == army_per_territory[player_idx]
              after == army_per_territory'[player_idx]
              share == grant \div k
          IN /\ k >= 1
             /\ DOMAIN after = DOMAIN before
             /\ SumArmies(after) = SumArmies(before) + grant
             /\ \A t \in DOMAIN before :
                    after[t] - before[t] \in
                        {share, IF grant % k = 0 THEN share ELSE share + 1}
             /\ \A q \in Players \ {player_idx} :
                    army_per_territory'[q] = army_per_territory[q]
      ]_vars

(* The only player, owner of all 16 territories, has been granted 5 armies *)
C11_Witness ==
    /\ pc = "attack_phase"
    /\ turns = 1
    /\ attacks = 0
    /\ number_of_players = 1
    /\ TotalArmies(0) = ArmiesPerPlayer(1) + 5

(* C12: in every state check_game_over returns true exactly when some     *)
(* player's ledger holds as many territories as the graph has.             *)
C12_GameOverPredicate ==
    CheckGameOver <=>
        \E p \in Players :
            Cardinality(DOMAIN army_per_territory[p]) = Cardinality(Territories)

(* check_game_over has returned true for a winner who is not the first     *)
(* player of the list                                                      *)
C12_Witness ==
    /\ pc = "game_over"
    /\ CheckGameOver
    /\ \E p \in Players : p > 0 /\ Owned(p) = Territories

(* Some player holds every territory *)
OneOwnsAll == \E p \in Players : Owned(p) = Territories

(* C13: when a call of perform_attack has returned, the next step is the   *)
(* evaluation of the game-over predicate: the program goes to game over    *)
(* if one player holds every territory and back to the attack phase if     *)
(* not, changing no ledger and not the player whose turn it is; game over  *)
(* is entered in no other way and nothing happens after it.                *)
C13_ImmediateGameOver ==
    [][/\ pc = "attack_returned" =>
              /\ pc' = (IF OneOwnsAll THEN "game_over" ELSE "attack_phase")
              /\ UNCHANGED <<army_per_territory, player_idx, turns, attacks>>
       /\ pc' = "game_over" => pc = "attack_returned"
       /\ pc # "game_over"
      ]_vars

(* Game over in a game of three, in the turn of the winner *)
C13_Witness ==
    /\ pc = "game_over"
    /\ number_of_players = 3
    /\ Owned(player_idx) = Territories
    /\ attack_count > 0

(* C14: once the allocation is done, whenever one player holds every       *)
(* territory the program is at game over or at the evaluation that leads   *)
(* to it; no reinforcement and no attack phase runs in such a state.       *)
C14_GameEndsWhenOneOwnsAll ==
    (AllocationDone /\ OneOwnsAll) => pc \in {"attack_returned", "game_over"}

(* The attack phase of a turn, the calls of perform_attack included *)
AttackingPhase ==
    pc \in {"attack_phase", "perform_attack", "conquest_transfer",
            "attack_returned"}

(* C15: the turn passes from a player to the next index modulo the player  *)
(* count, and only by the end-turn answer given in the attack phase; a     *)
(* turn starts with one reinforcement of its player, which leads to the    *)
(* attack phase, and no ledger entry grows during the attack phase; every  *)
(* call of perform_attack is made from the attack phase with the player    *)
(* of the turn as attacker; the attack phase is left only by the end-turn  *)
(* answer or by game over (or by the program aborting inside               *)
(* perform_attack, which ends the program and not the phase alone).        *)
C15_TurnSequencing ==
    [][/\ player_idx' # player_idx => pc' = "reinforce"
       /\ (pc' = "reinforce" /\ AllocationDone) =>
              /\ EndTurn
              /\ player_idx' = (player_idx + 1) % number_of_players
       /\ pc = "reinforce" =>
              /\ pc' \in {"attack_phase", "reinforce_hang"}
              /\ player_idx' = player_idx
              /\ attack_count' = 0
              /\ pc' = "attack_phase" =>
                     /\ SumArmies(army_per_territory'[player_idx])
                            > SumArmies(army_per_territory[player_idx])
                     /\ \A q \in Players \ {player_idx} :
                            army_per_territory'[q] = army_per_territory[q]
       /\ (pc' = "attack_phase" /\ pc # "attack_phase") =>
              pc \in {"reinforce", "attack_returned"}
       /\ AttackingPhase =>
              /\ \A q \in Players : \A t \in Owned(q) :
                     t \in DOMAIN army_per_territory'[q] =>
                         army_per_territory'[q][t] <= army_per_territory[q][t]
              /\ pc' \notin {"reinforce", "game_over", "panicked", "overflowed"}
                     => (player_idx' = player_idx /\ AttackingPhase')
       /\ pc' = "perform_attack" =>
              /\ pc = "attack_phase"
              /\ call'.attacker_idx = player_idx
              /\ player_idx' = player_idx
      ]_vars

(* The turn has passed from the last player to the first, who has been     *)
(* reinforced and has then attacked.                                       *)
C15_Witness ==
    /\ pc = "attack_returned"
    /\ player_idx = 0
    /\ number_of_players > 1
    /\ turns = 1
    /\ attack_count = 0
    /\ attacks > 1
    /\ call.attacker_idx = 0

(* C16: a call of perform_attack made on the answer "y" to the repeat      *)
(* question follows a call of the same turn that returned false and has    *)
(* the source, the target and the defender of that call, whatever was      *)
(* typed and rejected in between; after a call that returned true the      *)
(* next call is made from a new selection.                                 *)
C16_RepeatAttackRule ==
    [][/\ (RepeatAttack /\ pc' = "perform_attack") =>
              /\ attack_count > 0
              /\ ~attack_finished
              /\ attacking_territory_index' = previous_call.source
              /\ target_territory_index' = previous_call.target
              /\ call'.defender_idx = previous_call.defender
       /\ (pc' = "perform_attack" /\ attack_finished) => NewAttack
      ]_vars

(* C17: the player whose reinforcement phase is entered owns at least one  *)
(* territory, and add_armies_to_player is never left looping over an empty *)
(* ledger.                                                                 *)
C17_ReinforcementCompletes ==
    /\ (pc = "reinforce" /\ AllocationDone) => Owned(player_idx) # {}
    /\ pc # "reinforce_hang"

(* C18: when the territories have been dealt, for every player count and   *)
(* every shuffle tried, every territory is in exactly one player's ledger  *)
(* and the numbers of territories of any two players differ by at most 1;  *)
(* the placement of the armies that follows changes nothing of that.       *)
C18_BalancedAssignment ==
    (pc \in {"choose_mode", "manual"} \/ (pc = "reinforce" /\ turns = 0)) =>
        /\ OwnershipPartition
        /\ \A p \in Players : \A q \in Players :
               Cardinality(Owned(p)) - Cardinality(Owned(q)) <= 1

(* 16 territories dealt to 3 players: 6, 5 and 5 *)
C18_Witness ==
    /\ pc = "choose_mode"
    /\ number_of_players = 3
    /\ Cardinality(Owned(0)) = 6
    /\ Cardinality(Owned(2)) = 5

(* C19: in manual mode a nomination that is rejected changes no ledger and *)
(* no placed count and the same player is asked again; an accepted         *)
(* nomination adds 1 army to the nominated territory of the player asked   *)
(* and 1 to that player's placed count; and the prompting ends only when   *)
(* every player has placed the whole pool.                                 *)
C19_ManualPlacementProtocol ==
    [][pc = "manual" =>
          LET player == manual_player
              pool == ArmiesPerPlayer(number_of_players)
              grown == { t \in Owned(player) :
                            army_per_territory'[player][t]
                                = army_per_territory[player][t] + 1 }
          IN /\ army_per_territory' = army_per_territory =>
                    /\ army_count_per_player' = army_count_per_player
                    /\ manual_player' = manual_player
                    /\ pc' = "manual"
             /\ (army_per_territory' # army_per_territory /\ pc' = "manual") =>
                    /\ Cardinality(grown) = 1
                    /\ army_count_per_player' =
                           [army_count_per_player EXCEPT ![player] = @ + 1]
             /\ pc' # "manual" =>
                    \A p \in Players : army_count_per_player'[p] = pool
      ]_vars

(* C20: when the source typed for a new attack is rejected (not owned by   *)
(* the player of the turn, fewer than 2 armies, or no neighbour to         *)
(* attack), every ledger is as before, no call of perform_attack is made   *)
(* and no die is rolled, and the same player is asked again in the attack  *)
(* phase.                                                                  *)
C20_RejectionLeavesLedger ==
    [][(SourceNotOwned \/ SourceTooFewArmies \/ SourceNoTargets) =>
          /\ army_per_territory' = army_per_territory
          /\ call' = call
          /\ ~call'.rolled
          /\ attacks' = attacks
          /\ attack_count' = attack_count
          /\ pc' = "attack_phase"
          /\ player_idx' = player_idx
      ]_vars

(* After an attack of this turn, a source of the player's own with fewer   *)
(* than 2 armies has been typed and rejected.                              *)
C20_Witness ==
    /\ pc = "attack_phase"
    /\ attack_count > 0
    /\ call = NoCall
    /\ attacking_territory_index # previous_call.source
    /\ attacking_territory_index \in Owned(player_idx)
    /\ army_per_territory[player_idx][attacking_territory_index] < 2

(* C21: a number of armies to move that lies outside                       *)
(* min_movable_armies..max_movable_armies is not applied in another        *)
(* amount: the transfer a conquest ends with is of the number typed.       *)
C21_OutOfRangeTransferRejected ==
    (pc = "attack_returned" /\ call.conquered) =>
        /\ call.n_movable_armies = call.n_movable_armies_input
        /\ call.n_movable_armies_input >= call.n_attacking_armies
        /\ call.n_movable_armies_input <= call.new_n_attack_armies - 1

(* C22: wherever the program waits for an answer (the attack decision, the *)
(* number of armies to move after a conquest, a manual nomination) every   *)
(* territory is in exactly one player's ledger with at least 1 army.       *)
C22_NoPartialApplication ==
    pc \in {"attack_phase", "conquest_transfer", "manual"} =>
        (OwnershipPartition /\ ArmyFloor)

(* C23: a call made from a source of at least 2 armies that brings the     *)
(* target to 0 armies has cost the attacker no army: every comparison was  *)
(* won by the attacker, the source holds what it held, and the armies left *)
(* minus 1 are at least the attacking force, so the range of the transfer  *)
(* is not empty.                                                           *)
C23_ConquestNoAttackerLoss ==
    (call.rolled /\ call.new_n_defend_armies = 0 /\ call.n_attack_armies >= 2) =>
        LET attacking == call.attacking_dice_rolls
            defending == call.defending_dice_rolls
            pairs == 1..Min(Len(attacking), Len(defending))
        IN /\ \A i \in pairs : attacking[i] > defending[i]
           /\ call.new_n_attack_armies =
                  ArmiesBefore(call.attacker_idx, attacking_territory_index)
           /\ call.n_attacking_armies >= 1
           /\ call.new_n_attack_armies - 1 >= call.n_attacking_armies

(* A target of 2 armies conquered in one call from a source of 3, where    *)
(* the range of the transfer is the single number 2.                       *)
C23_Witness ==
    /\ pc = "conquest_transfer"
    /\ call.n_defend_armies = 2
    /\ call.n_attack_armies = 3
    /\ call.new_n_attack_armies = 3
    /\ call.n_attacking_armies = 2

(* C24: when a call made from a source of at least 2 armies returns false, *)
(* the source is still the attacker's with at least 2 armies and the       *)
(* target is still the same defender's, who is not the attacker, with at   *)
(* least 1 army: the same pair can be attacked again.                      *)
C24_FalseReturnLegalRepeat ==
    (pc = "attack_returned" /\ ~call.result
        /\ ArmiesBefore(call.attacker_idx, attacking_territory_index) >= 2) =>
        LET attacker == call.attacker_idx
            defender == call.defender_idx
            source == attacking_territory_index
            target == target_territory_index
        IN /\ source \in Owned(attacker)
           /\ army_per_territory[attacker][source] >= 2
           /\ defender # attacker
           /\ target \in Owned(defender)
           /\ target \notin Owned(attacker)
           /\ army_per_territory[defender][target] >= 1
           /\ defender_idx_option = defender

(* A call that returned false after the source lost armies down to 2 and   *)
(* the target down to 1                                                    *)
C24_Witness ==
    /\ pc = "attack_returned"
    /\ ~call.result
    /\ army_per_territory[call.attacker_idx][attacking_territory_index] = 2
    /\ call.n_attack_armies > 2
    /\ army_per_territory[call.defender_idx][target_territory_index] = 1
    /\ call.n_defend_armies > 1

(* C25: a call of perform_attack changes only the attacker's entry of the  *)
(* source and the entry of the target (the defender's, and on a conquest   *)
(* its passage to the attacker); every other entry of every player stays   *)
(* as it is, and so does every ledger when the call has returned.  A       *)
(* reinforcement changes army counts of the player of the turn only and    *)
(* the territories of no player.                                           *)
C25_Frame ==
    [][/\ pc \in {"perform_attack", "conquest_transfer"} =>
              \A p \in Players : \A t \in Territories :
                  (/\ ~(/\ p = call.attacker_idx
                        /\ t \in {attacking_territory_index,
                                   target_territory_index})
                   /\ ~(/\ p = call.defender_idx
                        /\ t = target_territory_index)) =>
                      /\ (t \in DOMAIN army_per_territory'[p])
                             <=> (t \in DOMAIN army_per_territory[p])
                      /\ t \in DOMAIN army_per_territory[p] =>
                             army_per_territory'[p][t] = army_per_territory[p][t]
       /\ pc = "attack_returned" => army_per_territory' = army_per_territory
       /\ pc = "reinforce" =>
              /\ \A p \in Players :
                     DOMAIN army_per_territory'[p] = DOMAIN army_per_territory[p]
              /\ \A q \in Players \ {player_idx} :
                     army_per_territory'[q] = army_per_territory[q]
      ]_vars

(* A conquest in a game of three: the ledger of the player who is neither  *)
(* attacker nor defender is as it was when the call was made.              *)
C25_Witness ==
    /\ pc = "attack_returned"
    /\ call.conquered
    /\ number_of_players = 3
    /\ \E q \in Players \ {call.attacker_idx, call.defender_idx} :
           /\ Owned(q) # {}
           /\ army_per_territory[q] = call.players_before[q]

(* C26: in every call of perform_attack made from the attack phase the     *)
(* defender passed is a player other than the attacker in whose ledger the *)
(* target is: a defender found for an earlier attack of the turn is not    *)
(* passed for a target that player does not own.                           *)
C26_DefenderIdentity ==
    pc = "perform_attack" =>
        /\ call.defender_idx # call.attacker_idx
        /\ target_territory_index \in Owned(call.defender_idx)

====
